---- MODULE Spec2Model ----
(***************************************************************************)
(* Scope-bound allocation ledger of aizec/std/aize_mem.c.                  *)
(*                                                                         *)
(* The ledger is the global aize_mem_bound (capacity, len, arr), the scope *)
(* controller is the global aize_mem_depth.  Every exported function is    *)
(* one action.  The object headers (depth, ref_count) live in the objects  *)
(* the ledger points to; the callers of the runtime write them directly    *)
(* (marking an object for return, adjusting its reference count).          *)
(*                                                                         *)
(* Unsigned values (uint32_t aize_mem_depth, size_t len) are kept as their *)
(* two's complement representative: -1 stands for the largest value of the *)
(* type, so that 0 - 1 wraps as the code wraps; ULt/UGe compare them as    *)
(* the unsigned values they stand for.                                     *)
(*                                                                         *)
(* Reads the C code performs on storage it never wrote (the slot arr[len]  *)
(* one past the top, the header of a freshly malloc'ed object, the return  *)
(* register of a function that returns nothing) take any value; a write    *)
(* outside the buffer either stops the process ("fault") or corrupts the   *)
(* heap and lets it run on ("corrupt").                                    *)
(***************************************************************************)
EXTENDS Integers, Sequences, FiniteSets

\* ---------------------------------------------------------------- constants
START_SIZE == 256
SCALE_FACTOR == 2
SHRINK_WHEN == 4
\* sizeof(void*): the size of one slot of arr
PtrSize == 8

\* ------------------------------------------------------------------- bounds
\* number of aize_mem_malloc calls in a run
MaxObjs == 3
\* largest value aize_mem_enter takes aize_mem_depth to; also the largest
\* depth an indeterminate header is read as
MaxDepth == 3
\* largest ref_count a header holds
MaxRef == 1
\* how far aize_mem_exit may take aize_mem_depth below 1 (1: down to 0)
MaxUnderflow == 1
\* number of ledger calls LedgerSpec makes on the ledger it starts from
MaxCalls == 2

\* ----------------------------------------------------------------- pointers
NULL == 0
\* a pointer value that is neither NULL nor the address of a managed object
GARBAGE == -1
ObjIds == 1..MaxObjs
GarbageDepths == 0..MaxDepth

\* unsigned comparison of two's complement representatives
ULt(a, b) == IF (a < 0) = (b < 0) THEN a < b ELSE b < 0
UGe(a, b) == ~ULt(a, b)

VARIABLES
    aize_mem_bound,   \* [capacity, len, arr]: arr holds the slots 0..len-1
    aize_mem_depth,   \* the depth counter
    hdr,              \* object id -> [depth, ref_count], the AizeBase headers
                      \* of the objects the ledger points to
    nextId,           \* number of aize_mem_malloc calls so far
    ret,              \* the value the last aize_mem_malloc call handed back
    freed,            \* objects whose storage was given back to the heap
    status,           \* "ok" | "corrupt" (heap damaged, running) | "fault"
    frames,           \* history: one record per open aize_mem_enter:
                      \* mark: nextId at the enter; only: nothing but
                      \* aize_mem_malloc ran in the scope; flat: no scope was
                      \* opened in it; sent: the objects marked for return
                      \* in the scope and not marked since
    promoted,         \* history: objects a collect re-tagged, not marked since
    bytes,            \* the size malloc/realloc was last asked for arr's block
    num_to_pop,       \* history: the count the collect of the last step
                      \* passed to aize_mem_pop_mem, 0 if the step ran none
    peak,             \* history: the largest len so far
    calls             \* history: ledger calls made by LedgerSpec

vars == <<aize_mem_bound, aize_mem_depth, hdr, nextId, ret, freed, status,
          frames, promoted, bytes, num_to_pop, peak, calls>>

Objs(arr) == {arr[i] : i \in 1..Len(arr)} \cap ObjIds
Top(arr) == IF Len(arr) = 0 THEN NULL ELSE arr[Len(arr)]

\* ------------------------------------------------------------------- ledger
\* aize_mem_add_mem: the size in bytes asked of malloc or realloc, or the
\* size of the block as it is
AddBytes(b, by) ==
    IF b.len = b.capacity
    THEN (IF b.len = 0 THEN START_SIZE ELSE b.capacity * SCALE_FACTOR)
    ELSE by

\* aize_mem_add_mem: the store arr[len] = mem lands outside the block when
\* len has wrapped below 0 or slot len ends beyond the block's bytes
AddWild(b, by) == b.len < 0 \/ (b.len + 1) * PtrSize > AddBytes(b, by)

\* aize_mem_add_mem growing a full ledger by the square of SCALE_FACTOR
AddMem_m(b, mem) ==
    LET cap == IF b.len = b.capacity
               THEN (IF b.len = 0 THEN START_SIZE
                     ELSE b.capacity * SCALE_FACTOR * SCALE_FACTOR)
               ELSE b.capacity
    IN  [capacity |-> cap,
         len      |-> b.len + 1,
         arr      |-> IF b.len < 0 THEN b.arr ELSE Append(b.arr, mem)]

\* aize_mem_add_mem, the block staying where it is
AddMem(b, mem) ==
    LET cap == IF b.len = b.capacity
               THEN (IF b.len = 0 THEN START_SIZE ELSE b.capacity * SCALE_FACTOR)
               ELSE b.capacity
    IN  [capacity |-> cap,
         len      |-> b.len + 1,
         arr      |-> IF b.len < 0 THEN b.arr ELSE Append(b.arr, mem)]

\* realloc moving a block copies the bytes of the block: a slot written past
\* them is not carried over, the new block holds whatever the heap held
Moved(arr, by) ==
    [i \in 1..Len(arr) |-> IF i * PtrSize <= by THEN arr[i] ELSE GARBAGE]

\* aize_mem_add_mem: the ledgers the call can leave
AddOutcomes(b, mem, by) ==
    {AddMem(b, mem)} \cup
    (IF b.len = b.capacity /\ b.len # 0
     THEN {AddMem([b EXCEPT !.arr = Moved(b.arr, by)], mem)}
     ELSE {})

\* aize_mem_pop_mem: the memset starts below arr[0] when num > len, and ends
\* beyond the block when slot len - 1 does
PopWild(b, num, by) == num > 0 /\ (num > b.len \/ b.len * PtrSize > by)

\* aize_mem_pop_mem: the test of the shrink, made after len -= num
PopShrinks(b, num) ==
    /\ b.capacity > SCALE_FACTOR * START_SIZE
    /\ ULt((b.len - num) - num, b.capacity \div SHRINK_WHEN)

\* aize_mem_pop_mem, the block staying where it is
PopMem(b, num) ==
    LET len1 == b.len - num
    IN  [capacity |-> IF PopShrinks(b, num)
                      THEN b.capacity \div SCALE_FACTOR ELSE b.capacity,
         len      |-> len1,
         arr      |-> IF len1 >= 0 THEN SubSeq(b.arr, 1, len1) ELSE << >>]

\* aize_mem_pop_mem: the size in bytes asked of realloc, or the size as it is
PopBytes(b, num, by) ==
    IF PopShrinks(b, num) THEN b.capacity \div SCALE_FACTOR ELSE by

\* aize_mem_pop_mem: the ledgers the call can leave
PopOutcomes(b, num, by) ==
    {PopMem(b, num)} \cup
    (IF PopShrinks(b, num)
     THEN {[PopMem(b, num) EXCEPT
              !.arr = Moved(@, IF by < PopBytes(b, num, by)
                               THEN by ELSE PopBytes(b, num, by))]}
     ELSE {})

\* ------------------------------------------------------------------ collect
\* The loop of aize_mem_collect from index i downwards, as the set of ways it
\* can end: [fault, wild, num, ret, hdr].  Index len is the slot one past the
\* top, which the loop reads first; that slot, a NULL entry and a GARBAGE
\* entry have no header, so the depth read through them is any value or a
\* fault.
RECURSIVE Scan(_, _, _, _, _, _, _)
Scan(b, cur, i, num, robj, h, wild) ==
    IF i < 0
    THEN {[fault |-> FALSE, wild |-> wild, num |-> num, ret |-> robj, hdr |-> h]}
    ELSE
      LET ptrs == IF i < b.len THEN {b.arr[i + 1]} ELSE {NULL, GARBAGE}
          Step(obj, dep) ==
              IF UGe(dep, cur)
              THEN Scan(b, cur, i - 1, num + 1, robj, h, wild)
              ELSE IF dep = 0
              THEN Scan(b, cur, i - 1, num + 1, obj,
                        IF obj \in ObjIds
                        THEN [h EXCEPT ![obj].depth = cur - 1] ELSE h,
                        wild \/ obj \notin ObjIds)
              ELSE {[fault |-> FALSE, wild |-> wild, num |-> num,
                     ret |-> robj, hdr |-> h]}
          Visit(obj) ==
              IF obj \in ObjIds
              THEN Step(obj, h[obj].depth)
              ELSE {[fault |-> TRUE, wild |-> wild, num |-> num,
                     ret |-> robj, hdr |-> h]}
                   \cup UNION {Step(obj, dep) : dep \in GarbageDepths}
      IN  UNION {Visit(obj) : obj \in ptrs}

\* the index the loop of aize_mem_collect starts at
ScanStart(b) == b.len

Collect(b, cur, h) == Scan(b, cur, ScanStart(b), 0, NULL, h, FALSE)

\* ------------------------------------------------------------------ actions
NoHdr == [depth |-> 0, ref_count |-> 0]

\* the headers the model follows: those of the objects in the ledger
Tracked(h, arr) == [o \in ObjIds |-> IF o \in Objs(arr) THEN h[o] ELSE NoHdr]

\* the larger of two unsigned values
UMax(a, b) == IF ULt(a, b) THEN b ELSE a

Init ==
    /\ aize_mem_bound = [capacity |-> 0, len |-> 0, arr |-> << >>]
    /\ aize_mem_depth = 1
    /\ hdr = [o \in ObjIds |-> NoHdr]
    /\ nextId = 0
    /\ ret = NULL
    /\ freed = {}
    /\ status = "ok"
    /\ frames = << >>
    /\ promoted = {}
    /\ bytes = 0
    /\ num_to_pop = 0
    /\ peak = 0
    /\ calls = 0

Running == status # "fault"

\* a write outside the buffer: the process stops, or runs on with a damaged heap
AfterWrite(wild) == IF wild THEN {"fault", "corrupt"} ELSE {status}

Fault ==
    /\ status' = "fault"
    /\ UNCHANGED <<aize_mem_bound, aize_mem_depth, hdr, nextId, ret, freed,
                   frames, promoted, bytes, num_to_pop, peak, calls>>

\* history: an operation other than aize_mem_malloc ran in the open scope
Disturb(fs) ==
    IF fs = << >> THEN fs ELSE [fs EXCEPT ![Len(fs)].only = FALSE]

\* history: object o was marked in the open scope
Remark(fs, o) ==
    [i \in 1..Len(fs) |->
        [fs[i] EXCEPT !.sent = IF i = Len(fs) THEN @ \cup {o} ELSE @ \ {o}]]

\* history: a nested scope was opened in the open scope
Nest(fs) ==
    IF fs = << >> THEN fs
    ELSE [fs EXCEPT ![Len(fs)].only = FALSE, ![Len(fs)].flat = FALSE]

aize_mem_enter ==
    /\ Running
    /\ aize_mem_depth < MaxDepth
    /\ aize_mem_depth' = aize_mem_depth + 1
    /\ frames' = Append(Nest(frames),
                        [mark |-> nextId, only |-> TRUE, flat |-> TRUE,
                         sent |-> {}])
    /\ num_to_pop' = 0
    /\ UNCHANGED <<aize_mem_bound, hdr, nextId, ret, freed, status, promoted,
                   bytes, peak, calls>>

\* malloc either yields the storage of a new object, whose header holds
\* whatever the heap held, or NULL; the function ends without a return
\* statement, so its caller receives whatever the return register holds
aize_mem_malloc ==
    /\ Running
    /\ nextId < MaxObjs
    /\ \E ok \in BOOLEAN, dep \in GarbageDepths, rc \in 0..MaxRef :
         LET id  == nextId + 1
             mem == IF ok THEN id ELSE NULL
         IN  \E st \in AfterWrite(AddWild(aize_mem_bound, bytes)),
                rv \in {mem, GARBAGE},
                b2 \in AddOutcomes(aize_mem_bound, mem, bytes) :
               IF st = "fault" THEN Fault
               ELSE
                 /\ aize_mem_bound' = b2
                 /\ bytes' = AddBytes(aize_mem_bound, bytes)
                 /\ peak' = UMax(peak, b2.len)
                 /\ num_to_pop' = 0
                 /\ hdr' = Tracked([hdr EXCEPT ![id] =
                                      [depth |-> dep, ref_count |-> rc]],
                                   b2.arr)
                 /\ nextId' = id
                 /\ ret' = rv
                 /\ status' = st
                 /\ UNCHANGED <<aize_mem_depth, freed, frames, promoted, calls>>

\* the caller marks an object it holds as the scope's return value
MarkForReturn ==
    /\ Running
    /\ \E o \in Objs(aize_mem_bound.arr) :
         /\ hdr[o].depth # 0
         /\ hdr' = [hdr EXCEPT ![o].depth = 0]
         /\ promoted' = promoted \ {o}
         /\ frames' = Remark(Disturb(frames), o)
    /\ num_to_pop' = 0
    /\ UNCHANGED <<aize_mem_bound, aize_mem_depth, nextId, ret, freed, status,
                   bytes, peak, calls>>

\* the caller takes or drops a reference to an object
AdjustRefCount ==
    /\ Running
    /\ \E o \in Objs(aize_mem_bound.arr), rc \in 0..MaxRef :
         /\ rc # hdr[o].ref_count
         /\ hdr' = [hdr EXCEPT ![o].ref_count = rc]
    /\ frames' = Disturb(frames)
    /\ num_to_pop' = 0
    /\ UNCHANGED <<aize_mem_bound, aize_mem_depth, nextId, ret, freed, status,
                   promoted, bytes, peak, calls>>

aize_mem_exit ==
    /\ Running
    /\ aize_mem_depth > 0 - MaxUnderflow
    /\ \E r \in Collect(aize_mem_bound, aize_mem_depth, hdr) :
         IF r.fault THEN Fault
         ELSE
           \E p \in PopOutcomes(aize_mem_bound, r.num, bytes) :
           LET pby  == PopBytes(aize_mem_bound, r.num, bytes)
               wild == \/ r.wild
                       \/ PopWild(aize_mem_bound, r.num, bytes)
                       \/ (r.ret # NULL /\ AddWild(p, pby))
           IN  \E st \in AfterWrite(wild),
                  b2 \in IF r.ret # NULL THEN AddOutcomes(p, r.ret, pby)
                         ELSE {p} :
                 IF st = "fault" THEN Fault
                 ELSE
                   /\ aize_mem_bound' = b2
                   /\ bytes' = IF r.ret # NULL THEN AddBytes(p, pby) ELSE pby
                   /\ peak' = UMax(peak, b2.len)
                   /\ num_to_pop' = r.num
                   /\ hdr' = Tracked(r.hdr, b2.arr)
                   /\ aize_mem_depth' = aize_mem_depth - 1
                   /\ status' = st
                   /\ frames' = IF frames = << >> THEN frames
                                ELSE SubSeq(frames, 1, Len(frames) - 1)
                   /\ promoted' = {o \in Objs(b2.arr) :
                                     \/ o \in promoted
                                     \/ r.hdr[o].depth # hdr[o].depth}
                   /\ UNCHANGED <<nextId, ret, freed, calls>>

Next ==
    \/ aize_mem_enter
    \/ aize_mem_malloc
    \/ MarkForReturn
    \/ AdjustRefCount
    \/ aize_mem_exit

Spec == Init /\ [][Next]_vars

\* ---------------------------------------------------- the ledger on its own
\* LedgerSpec drives the ledger through its two functions, as aize_mem_malloc
\* and aize_mem_collect do, from ledgers that hold up to four times
\* START_SIZE entries.  Entry i of a starting ledger is the reference i.
Grid(n) == n % (START_SIZE \div 2) \in {0, 1, START_SIZE \div 2 - 1}

LedgerCaps ==
    {0, START_SIZE, SCALE_FACTOR * START_SIZE,
     SCALE_FACTOR * SCALE_FACTOR * START_SIZE}

\* lengths on the grid, and the two around the last slot of a START_SIZE
\* byte block
LedgerLens(cap) ==
    {n \in 0..cap : Grid(n) \/ n * PtrSize \in {START_SIZE, START_SIZE + PtrSize}}

\* the least peak a run to a ledger of this capacity and length has had:
\* capacity cap > START_SIZE was reached by an append to cap / SCALE_FACTOR
\* entries, capacity START_SIZE by an append
LeastPeak(cap, len) ==
    IF cap = 0 THEN 0
    ELSE UMax(len, IF cap > START_SIZE THEN cap \div SCALE_FACTOR + 1 ELSE 1)

\* the counts aize_mem_collect passes: up to len + 1
PopNums(len) == {n \in 0..(len + 1) : Grid(n) \/ n >= len}

LedgerInit ==
    /\ \E cap \in LedgerCaps, len \in 0..(4 * START_SIZE) :
         /\ len \in LedgerLens(cap)
         /\ aize_mem_bound = [capacity |-> cap, len |-> len,
                              arr |-> [i \in 1..len |-> i]]
         /\ bytes = cap
         /\ peak = LeastPeak(cap, len)
         /\ status = IF LeastPeak(cap, len) * PtrSize > START_SIZE
                     THEN "corrupt" ELSE "ok"
    /\ aize_mem_depth = 1
    /\ hdr = [o \in ObjIds |-> NoHdr]
    /\ nextId = 0
    /\ ret = NULL
    /\ freed = {}
    /\ frames = << >>
    /\ promoted = {}
    /\ num_to_pop = 0
    /\ calls = 0

LedgerCall(b2, by, st) ==
    IF st = "fault" THEN Fault
    ELSE
      /\ aize_mem_bound' = b2
      /\ bytes' = by
      /\ peak' = UMax(peak, b2.len)
      /\ status' = st
      /\ calls' = calls + 1
      /\ UNCHANGED <<aize_mem_depth, hdr, nextId, ret, freed, frames, promoted,
                     num_to_pop>>

aize_mem_add_mem ==
    /\ Running
    /\ calls < MaxCalls
    /\ \E mem \in {NULL, aize_mem_bound.len + 1},
          st \in AfterWrite(AddWild(aize_mem_bound, bytes)) :
         \E b2 \in AddOutcomes(aize_mem_bound, mem, bytes) :
            LedgerCall(b2, AddBytes(aize_mem_bound, bytes), st)

aize_mem_pop_mem ==
    /\ Running
    /\ calls < MaxCalls
    /\ \E num \in PopNums(aize_mem_bound.len) :
         \E st \in AfterWrite(PopWild(aize_mem_bound, num, bytes)),
            b2 \in PopOutcomes(aize_mem_bound, num, bytes) :
            LedgerCall(b2, PopBytes(aize_mem_bound, num, bytes), st)

LedgerNext ==
    \/ aize_mem_add_mem
    \/ aize_mem_pop_mem

LedgerSpec == LedgerInit /\ [][LedgerNext]_vars


\* ------------------------------------------------------------------- claims
Arr == aize_mem_bound.arr
TopFrame == frames[Len(frames)]
\* a step in which aize_mem_exit ran to its end
ExitStep == aize_mem_depth' = aize_mem_depth - 1
\* a step in which aize_mem_malloc ran to its end
MallocStep == nextId' = nextId + 1
\* the step neither starts from nor ends in a damaged heap
Clean == status = "ok" /\ status' = "ok"
\* the objects malloc'ed since the aize_mem_enter of the open scope
InScope == {o \in ObjIds : o > TopFrame.mark /\ o <= nextId}

\* C1: strict nesting.  Right after the exit at depth d that matches an enter,
\* the ledger holds no object allocated between the two and tagged with a
\* depth >= d, unless the object was marked for return (depth 0) or had
\* ref_count # 0 at the exit.
C1_StrictNesting ==
    [][(ExitStep /\ Clean /\ frames # << >>) =>
         \A o \in InScope \cap Objs(aize_mem_bound'.arr) :
            \/ ULt(hdr[o].depth, aize_mem_depth)
            \/ hdr[o].ref_count # 0]_vars

\* C2: return-value promotion.  X allocated in the open scope, of depth d (no
\* nested scope was opened in it), marked for return (its depth is 0, the only
\* sentinel of the ledger) and on top of the ledger when exit runs at depth d: afterwards X.depth = d - 1, X is the top entry of the
\* ledger and the depth counter is d - 1.
C2_ReturnPromotion ==
    [][(/\ ExitStep /\ Clean
        /\ frames # << >>
        /\ TopFrame.flat
        /\ Top(Arr) \in InScope
        /\ \A o \in Objs(Arr) : hdr[o].depth = 0 <=> o = Top(Arr))
       => /\ Top(aize_mem_bound'.arr) = Top(Arr)
          /\ hdr'[Top(Arr)].depth = aize_mem_depth - 1
          /\ aize_mem_depth' = aize_mem_depth - 1]_vars

\* C3: LIFO eviction frame.  exit at depth d leaves every entry appended before
\* the matching enter whose depth tag is in 1..d-1 at its position, with its
\* reference and its header.
C3_LifoFrame ==
    [][(ExitStep /\ Clean /\ frames # << >>) =>
         \A i \in 1..Len(Arr) :
            (/\ Arr[i] \in ObjIds
             /\ Arr[i] <= TopFrame.mark
             /\ hdr[Arr[i]].depth > 0
             /\ hdr[Arr[i]].depth < aize_mem_depth)
            => /\ i <= Len(aize_mem_bound'.arr)
               /\ aize_mem_bound'.arr[i] = Arr[i]
               /\ hdr'[Arr[i]] = hdr[Arr[i]]]_vars

\* C4: balanced-scope round trip.  enter, then k >= 0 allocations (each one
\* succeeded, tagged with the scope's depth, ref_count 0, not marked) and
\* nothing else, then exit: the depth counter and the ledger (length and
\* entries) are as they were before the enter.
C4_RoundTrip ==
    [][(/\ ExitStep /\ Clean
        /\ frames # << >>
        /\ TopFrame.only
        /\ \A o \in InScope : /\ o \in Objs(Arr)
                              /\ hdr[o].depth = aize_mem_depth
                              /\ hdr[o].ref_count = 0)
       => /\ aize_mem_depth' = aize_mem_depth - 1
          /\ aize_mem_bound'.len = aize_mem_bound.len - Cardinality(InScope)
          /\ aize_mem_bound'.arr =
                SubSeq(Arr, 1, Len(Arr) - Cardinality(InScope))]_vars

\* C5: release exactly once.  Every object a step removes from the ledger
\* while its ref_count is 0 has its storage released by that step, and no
\* object still in the ledger is released.
C5_ReleaseOnce ==
    [][Clean =>
         /\ \A o \in Objs(Arr) \ Objs(aize_mem_bound'.arr) :
               hdr[o].ref_count = 0 => o \in freed' \ freed
         /\ freed' \cap Objs(aize_mem_bound'.arr) = {}]_vars

\* C6: allocate at depth d that obtained storage appends the new object as the
\* top entry (length + 1, earlier entries unchanged) with header depth = d and
\* ref_count = 0.
C6_AllocateRegisters ==
    [][(MallocStep /\ Clean /\ Top(aize_mem_bound'.arr) = nextId') =>
         /\ aize_mem_bound'.len = aize_mem_bound.len + 1
         /\ aize_mem_bound'.arr = Append(Arr, nextId')
         /\ hdr'[nextId'] = [depth |-> aize_mem_depth, ref_count |-> 0]]_vars

\* C7: allocate that obtained storage returns the reference of the new
\* object, the one it stored in the ledger's new top slot.
C7_AllocateReturns ==
    [][(MallocStep /\ Clean /\ Top(aize_mem_bound'.arr) = nextId') =>
         ret' = Top(aize_mem_bound'.arr)]_vars

\* C8: allocation failure.  When malloc yields no storage the ledger (length,
\* entries, capacity) is as before the call, and NULL is never an entry.
C8_AllocFailure ==
    [][(MallocStep /\ Clean /\ nextId' \notin Objs(aize_mem_bound'.arr)) =>
         /\ aize_mem_bound' = aize_mem_bound
         /\ \A i \in 1..Len(aize_mem_bound'.arr) :
               aize_mem_bound'.arr[i] # NULL]_vars

\* C9: invalid nesting.  The depth counter is never below 1: no exit runs to
\* its end from depth 1 (leaving 0) or from depth 0 (wrapping around).
C9_DepthFloor == UGe(aize_mem_depth, 1)

\* C10: a promoted object is an ordinary entry of the enclosing scope.  X,
\* promoted to depth e by an earlier exit and not marked since, with
\* ref_count 0, is not in the ledger after the exit at depth e.
C10_PromotedEvicted ==
    [][(ExitStep /\ Clean) =>
         \A o \in promoted :
            (hdr[o].depth = aize_mem_depth /\ hdr[o].ref_count = 0)
            => o \notin Objs(aize_mem_bound'.arr)]_vars

\* C11: in a run whose ledger length never exceeded the peak P (and never
\* wrapped), the capacity is at most max(START_SIZE, SCALE_FACTOR * P)
C11_BoundedCapacity ==
    peak >= 0 =>
       aize_mem_bound.capacity <= (IF START_SIZE > SCALE_FACTOR * peak
                                   THEN START_SIZE ELSE SCALE_FACTOR * peak)

\* a call grew the ledger that was full at its peak so far: the capacity is
\* SCALE_FACTOR times the length the growing append found
C11_Witness ==
    /\ calls > 0
    /\ aize_mem_bound.capacity > START_SIZE
    /\ aize_mem_bound.capacity = SCALE_FACTOR * (peak - 1)
    /\ aize_mem_bound.len = peak

\* C12: the scan of aize_mem_collect starts at the last valid index, reads no
\* slot at or beyond len (none at all of an empty ledger), and the count it
\* passes to aize_mem_pop_mem is at most len
C12_ScanBounds ==
    [][ExitStep => /\ ScanStart(aize_mem_bound) < aize_mem_bound.len
                   /\ num_to_pop' <= aize_mem_bound.len]_vars

\* C13: between operations of a correctly nested run, the depths of the
\* entries that do not hold the sentinel never decrease from the bottom of
\* the ledger to its top
C13_DepthOrdering ==
    (status = "ok" /\ aize_mem_depth >= 1) =>
       \A i, j \in 1..Len(Arr) :
          (/\ i < j
           /\ Arr[i] \in ObjIds /\ hdr[Arr[i]].depth # 0
           /\ Arr[j] \in ObjIds /\ hdr[Arr[j]].depth # 0)
          => hdr[Arr[i]].depth <= hdr[Arr[j]].depth

\* C14: between operations, every object in the ledger has the sentinel depth
\* 0 or a depth in 1..aize_mem_depth
C14_HeaderDepth ==
    (status = "ok" /\ aize_mem_depth >= 1) =>
       \A o \in Objs(Arr) :
          \/ hdr[o].depth = 0
          \/ (hdr[o].depth >= 1 /\ hdr[o].depth <= aize_mem_depth)

\* C15: an entry the exit at depth d counted, of depth >= d and with
\* ref_count # 0, is in the ledger after the exit, at depth d - 1
C15_FloatingKept ==
    [][(ExitStep /\ Clean) =>
         \A i \in 1..Len(Arr) :
            (/\ i >= Len(Arr) - num_to_pop' + 2
             /\ Arr[i] \in ObjIds
             /\ UGe(hdr[Arr[i]].depth, aize_mem_depth)
             /\ hdr[Arr[i]].ref_count # 0)
            => /\ Arr[i] \in Objs(aize_mem_bound'.arr)
               /\ hdr'[Arr[i]].depth = aize_mem_depth - 1]_vars

\* C19: the exit of a nested scope leaves alone the sentinel of an object that
\* was marked in the scope around it: the object stays in the ledger with
\* depth 0, for the exit of the scope it was marked in
C19_MarkSurvives ==
    [][(ExitStep /\ Clean /\ Len(frames) >= 2) =>
         \A o \in frames[Len(frames) - 1].sent \cap Objs(Arr) :
            hdr[o].depth = 0
            => /\ o \in Objs(aize_mem_bound'.arr)
               /\ hdr'[o].depth = 0]_vars

\* a step of LedgerSpec in which aize_mem_add_mem ran to its end
AppendStep ==
    calls' = calls + 1 /\ aize_mem_bound'.len > aize_mem_bound.len

\* a step of LedgerSpec in which aize_mem_pop_mem(n) ran to its end, n <= len
TruncateStep ==
    /\ calls' = calls + 1
    /\ aize_mem_bound'.len <= aize_mem_bound.len
    /\ aize_mem_bound'.len >= 0

\* C16: an append to a full ledger sets the capacity to START_SIZE if the
\* ledger is empty and multiplies it by SCALE_FACTOR otherwise, an append to
\* a ledger that is not full leaves it; every entry keeps its index and
\* value, the reference is at the index of the old length, the length is one
\* more
C16_AppendGrowth ==
    [][(AppendStep /\ aize_mem_bound.len >= 0) =>
         /\ aize_mem_bound'.capacity =
               (IF aize_mem_bound.len = aize_mem_bound.capacity
                THEN (IF aize_mem_bound.len = 0 THEN START_SIZE
                      ELSE aize_mem_bound.capacity * SCALE_FACTOR)
                ELSE aize_mem_bound.capacity)
         /\ aize_mem_bound'.len = aize_mem_bound.len + 1
         /\ Len(aize_mem_bound'.arr) = aize_mem_bound.len + 1
         /\ Top(aize_mem_bound'.arr) \in {NULL, aize_mem_bound.len + 1}
         /\ \A i \in 1..Len(Arr) : aize_mem_bound'.arr[i] = Arr[i]]_vars

\* C17: a truncate by n <= len removes the top n entries and no other, and
\* divides the capacity by SCALE_FACTOR exactly when the capacity is above
\* SCALE_FACTOR * START_SIZE and the length it leaves, len - n, is below
\* capacity / SHRINK_WHEN
C17_TruncateShrink ==
    [][TruncateStep =>
         /\ aize_mem_bound'.arr = SubSeq(Arr, 1, aize_mem_bound'.len)
         /\ aize_mem_bound'.capacity =
               (IF /\ aize_mem_bound.capacity > SCALE_FACTOR * START_SIZE
                   /\ aize_mem_bound'.len < aize_mem_bound.capacity \div SHRINK_WHEN
                THEN aize_mem_bound.capacity \div SCALE_FACTOR
                ELSE aize_mem_bound.capacity)]_vars

\* C18: the length of the ledger (a length that has not wrapped) is at most
\* its capacity
C18_LenWithinCapacity ==
    aize_mem_bound.len >= 0 => aize_mem_bound.len <= aize_mem_bound.capacity

\* C20: the bytes asked for arr's block are at least capacity times the size
\* of a slot
C20_StorageSuffices == bytes >= aize_mem_bound.capacity * PtrSize
====
